---- MODULE Spec2Model ----
(***************************************************************************)
(* Model of server.py: the three duplex session endpoints                  *)
(* (/ws/transcriber, /ws/simulation/audio, /ws/simulation).                *)
(*                                                                         *)
(* One asyncio event loop runs every connection handler; a handler is      *)
(* atomic between two awaits.  Each TranscriberEngine runs its stt_loop on *)
(* a thread of its own, which interleaves freely with the handlers.        *)
(***************************************************************************)
EXTENDS Integers, Sequences, FiniteSets, TLC

\* ------------------------------------------------------------------ bounds
MaxFrames == 3          \* frames received, summed over all connections

\* --------------------------------------------------------------- constants
Conns == {"c1", "c2"}                 \* concurrent /ws/transcriber connections
SimEndpoints == {"audio", "dialog"}   \* /ws/simulation/audio, /ws/simulation
None == 0                             \* Python None for an engine reference
DefaultPatient == "P0001"             \* data.get("patient_id", "P0001")
Chunk == "chunk"                      \* one binary audio payload
Questions == <<"q1", "q2">>           \* decoded content of questions.json
Truncated == <<"<0 bytes>">>          \* a file opened with mode "w", not yet written
NoContext == <<>>                     \* an empty text in place of a seed context

\* Text payloads a client can send.
MalformedText == "{\"type\":"
StopText      == "{\"status\": true}"
StartText     == "{\"type\": \"start\"}"
StartP2Text   == "{\"type\": \"start\", \"patient_id\": \"P0002\"}"
PingText      == "{\"type\": \"ping\"}"
StatusOneText == "{\"status\": 1}"
ArrayText     == "[1]"
StringText    == "\"start\""
NumberText    == "7"
Texts == {MalformedText, StopText, StartText, StartP2Text, PingText,
          StatusOneText, ArrayText, StringText, NumberText}

BytesFrame      == "<bytes>"
DisconnectFrame == "<disconnect>"

\* ------------------------------------------------------------- json.loads
\* The decoded value: err for JSONDecodeError, isdict for a JSON object, and
\* the three keys the handlers read ("absent" when the key is missing).
Decoded(err, isdict, status, type, pid) ==
    [err |-> err, isdict |-> isdict, status |-> status, type |-> type,
     patient_id |-> pid]

json_loads(text) ==
    CASE text = MalformedText -> Decoded(TRUE,  FALSE, "absent", "absent", "absent")
      [] text = StopText      -> Decoded(FALSE, TRUE,  "true",   "absent", "absent")
      [] text = StartText     -> Decoded(FALSE, TRUE,  "absent", "start",  "absent")
      [] text = StartP2Text   -> Decoded(FALSE, TRUE,  "absent", "start",  "P0002")
      [] text = PingText      -> Decoded(FALSE, TRUE,  "absent", "ping",   "absent")
      [] text = StatusOneText -> Decoded(FALSE, TRUE,  "1",      "absent", "absent")
      [] OTHER                -> Decoded(FALSE, FALSE, "absent", "absent", "absent")

\* data.get(key, default) on a decoded object
DictGet(data, key, default) ==
    LET v == IF key = "status" THEN data.status
             ELSE IF key = "type" THEN data.type
             ELSE data.patient_id
    IN IF v = "absent" THEN default ELSE v

\* ---------------------------------------------------------------- state
VARIABLES
    pc,             \* per connection: position of the handler coroutine
    engine,         \* per connection: the handler's local `engine`
    engines,        \* every TranscriberEngine constructed so far, by id
    out,            \* per connection: frames written with websocket.send_json
    log,            \* per connection: frames received and what the handler did
    escaped,        \* per connection: an exception left the handler
    question_pool,  \* content of question_pool.json (shared by the process)
    education_pool, \* content of education_pool.json (shared by the process)
    frames,         \* frames received so far, all connections
    sim_pc,         \* per simulation endpoint: position of its handler
    manager,        \* per simulation endpoint: the handler's local `manager`
    sim_log,        \* per simulation endpoint: first frame and how it ended
    scheduled,      \* sends queued on main_loop by engine threads, oldest first
    blobs,          \* the bucket clinic_sim: one record per blob
    calls,          \* per worker thread: the request it is in the middle of
    resp,           \* the last document-store request answered and its response
    writes,         \* save and create requests made so far
    saved,          \* what save-file last stored and nothing has replaced since
    seeded          \* patients whose seed document create-patient wrote and is still there

tvars == <<pc, engine, engines, out, log, escaped, question_pool,
           education_pool>>
svars == <<sim_pc, manager, sim_log>>
evars == <<scheduled>>
dvars == <<blobs, calls, resp, writes, saved, seeded>>
vars == <<pc, engine, engines, out, log, escaped, question_pool,
          education_pool, frames, sim_pc, manager, sim_log, scheduled,
          blobs, calls, resp, writes, saved, seeded>>

\* No document-store request has been made yet.
NoResp ==
    [op |-> "none", pid |-> <<>>, file_name |-> <<>>, status |-> 0,
     kind |-> "none", body |-> <<>>, worker |-> 0, seq |-> 0]

\* The document-store endpoints are plain functions: each request runs on a
\* thread of the server's pool, and requests overlap between their calls to
\* the bucket.
Workers == {1, 2}

\* A worker thread with no request in hand.
Idle ==
    [op |-> "idle", pid |-> <<>>, file_name |-> <<>>, todo |-> <<>>, count |-> 0]

\* `manager = None`, and the fields of a manager once constructed
NoManager ==
    [exists |-> FALSE, patient_id |-> "absent", running |-> FALSE,
     stops |-> 0, logic_thread |-> "absent"]

Init ==
    /\ pc = [c \in Conns |-> "idle"]
    /\ engine = [c \in Conns |-> None]
    /\ engines = <<>>
    /\ out = [c \in Conns |-> <<>>]
    /\ log = [c \in Conns |-> <<>>]
    /\ escaped = [c \in Conns |-> FALSE]
    /\ question_pool = Questions
    /\ education_pool = <<>>
    /\ frames = 0
    /\ sim_pc = [s \in SimEndpoints |-> "idle"]
    /\ manager = [s \in SimEndpoints |-> NoManager]
    /\ sim_log = [s \in SimEndpoints |-> <<>>]
    /\ scheduled = <<>>
    /\ blobs = {}
    /\ calls = [t \in Workers |-> Idle]
    /\ resp = NoResp
    /\ writes = 0
    /\ saved = {}
    /\ seeded = {}

\* ------------------------------------------------- recognition engine
\* transcriber_engine_new.TranscriberEngine is outside the sources at hand;
\* its operations follow the engine contract (start, feed, finish, stop and a
\* liveness flag written by the ingestion thread and by stop()).
TranscriberEngine(owner, patient_id, patient_info) ==
    [owner |-> owner, patient_id |-> patient_id, patient_info |-> patient_info,
     running |-> TRUE, finishing |-> FALSE, stops |-> 0,
     thread |-> "unstarted", audio |-> <<>>, emitted |-> <<>>]

finish_consultation(engs, e) == [engs EXCEPT ![e].finishing = TRUE]

add_audio(engs, e, chunk) == [engs EXCEPT ![e].audio = Append(@, chunk)]

stop(engs, e) == [engs EXCEPT ![e].running = FALSE, ![e].stops = @ + 1]

\* Mutant: an unavailable document is answered with an empty text.
fetch_gcs_text_internal_Fallback(patient_id, file_name, available) ==
    IF available
    THEN [raised |-> FALSE, text |-> <<file_name, patient_id>>]
    ELSE [raised |-> FALSE, text |-> NoContext]

\* utils.fetch_gcs_text_internal(patient_id, "patient_info.md") is outside
\* the sources at hand; by the seed-context contract it returns the text of
\* the document, and raises when the document is unavailable.
fetch_gcs_text_internal(patient_id, file_name, available) ==
    IF available
    THEN [raised |-> FALSE, text |-> <<file_name, patient_id>>]
    ELSE [raised |-> TRUE, text |-> NoContext]

\* ------------------------------------------------- /ws/transcriber handler
ExceptionClasses == {"AttributeError", "RuntimeError", "FetchFailure"}

\* except WebSocketDisconnect / except Exception
Caught(exc) == exc = "WebSocketDisconnect" \/ exc \in ExceptionClasses

\* Mutant: the handler without its finally clause.
Cleanup_Missing(engs, e) == engs

\* finally: if engine: engine.stop()
Cleanup(engs, e) == IF e # None THEN stop(engs, e) ELSE engs

\* threading.Thread(target=engine.stt_loop, daemon=True).start()
ThreadStart(engs, e) == [engs EXCEPT ![e].thread = "alive"]

\* Mutant: json.loads outside the inner try, so a decode error ends the loop.
TextBranch_NoInnerTry(data) ==
    IF data.err THEN "JSONDecodeError"
    ELSE IF ~data.isdict THEN "AttributeError"
    ELSE IF DictGet(data, "status", "absent") = "true" THEN "stop"
    ELSE IF DictGet(data, "type", "absent") = "start" THEN "start"
    ELSE "ignored"

\* The if/elif chain applied to the decoded text frame.
TextBranch(data) ==
    IF data.err THEN "invalid_json"
    ELSE IF ~data.isdict THEN "AttributeError"
    ELSE IF DictGet(data, "status", "absent") = "true" THEN "stop"
    ELSE IF DictGet(data, "type", "absent") = "start" THEN "start"
    ELSE "ignored"

\* Mutant: `if engine.running`, which raises on engine = None.
BytesBranch_NoNoneCheck(e, engs) ==
    IF e = None THEN "AttributeError"
    ELSE IF engs[e].running THEN "feed"
    ELSE "drop"

\* if engine and engine.running
BytesBranch(e, engs) ==
    IF e = None THEN "drop"
    ELSE IF engs[e].running THEN "feed"
    ELSE "drop"

SystemFrame(message) == [type |-> "system", message |-> message]

Result(e, engs, sent, outcome, exc) ==
    [engine |-> e, engines |-> engs, sent |-> sent, outcome |-> outcome,
     exc |-> exc, fetch |-> "none"]

\* CASE A: manual stop signal
HandleStop(e, engs) ==
    IF e # None
    THEN Result(e, finish_consultation(engs, e), <<>>, "finish", "none")
    ELSE Result(e, engs, <<>>, "warn_not_running", "none")

\* CASE B: start signal, up to the await of websocket.send_json. An
\* exception of the fetch leaves the branch before the engine is built; a
\* returned value goes to TranscriberEngine as it is, whatever it holds.
HandleStart(c, data, e, engs, available) ==
    LET patient_id == DictGet(data, "patient_id", DefaultPatient)
        fetched == fetch_gcs_text_internal(patient_id, "patient_info.md",
                                           available)
        patient_info == fetched.text
        id == Len(engs) + 1
        made == ThreadStart(
                    Append(engs, TranscriberEngine(c, patient_id, patient_info)),
                    id)
        r == IF fetched.raised
             THEN Result(e, engs, <<>>, "start_failed", "FetchFailure")
             ELSE Result(id, made, <<>>, "started", "none")
    IN [r EXCEPT !.fetch = IF available THEN "ok" ELSE "unavailable"]

\* 1. HANDLE JSON COMMANDS
HandleText(c, text, e, engs, available) ==
    LET data == json_loads(text)
        branch == TextBranch(data)
    IN CASE branch = "invalid_json" -> Result(e, engs, <<>>, "invalid_json", "none")
         [] branch = "stop" -> HandleStop(e, engs)
         [] branch = "start" -> HandleStart(c, data, e, engs, available)
         [] branch = "ignored" -> Result(e, engs, <<>>, "ignored", "none")
         [] OTHER -> Result(e, engs, <<>>, "raised", branch)

\* 2. HANDLE BINARY AUDIO DATA
HandleBytes(e, engs) ==
    LET branch == BytesBranch(e, engs)
    IN CASE branch = "feed" -> Result(e, add_audio(engs, e, Chunk), <<>>, "fed", "none")
         [] branch = "drop" -> Result(e, engs, <<>>, "dropped", "none")
         [] OTHER -> Result(e, engs, <<>>, "raised", branch)

LogEntry(frame, r) ==
    [frame |-> frame, outcome |-> r.outcome, exc |-> r.exc, engine |-> r.engine,
     fetch |-> r.fetch]

\* The asyncio loop runs one handler at a time: between open() and accept()
\* the connecting handler does not yield.
Connecting == {"q_open", "q_closed", "e_open"}
LoopFree(c) == \A d \in Conns \ {c} : pc[d] \notin Connecting

\* The connection is accepted and not closed: the handler waits in
\* websocket.receive() or in websocket.send_json().
Open(c) == pc[c] \in {"loop", "sending"}

\* One iteration of `while True` up to its next await, with the
\* except/finally clauses when the iteration raises.
Apply(c, frame, r) ==
    /\ log' = [log EXCEPT ![c] = Append(@, LogEntry(frame, r))]
    /\ out' = [out EXCEPT ![c] = @ \o r.sent]
    /\ engine' = [engine EXCEPT ![c] = r.engine]
    /\ IF r.exc = "none"
       THEN /\ engines' = r.engines
            /\ pc' = IF r.outcome = "started"
                     THEN [pc EXCEPT ![c] = "sending"]
                     ELSE pc
            /\ escaped' = escaped
       ELSE /\ engines' = Cleanup(r.engines, r.engine)
            /\ pc' = [pc EXCEPT ![c] = "done"]
            /\ escaped' = [escaped EXCEPT ![c] = ~Caught(r.exc)]
    /\ UNCHANGED <<question_pool, education_pool, svars, evars, dvars>>

\* with open("questions.json") ...; open("question_pool.json", "w")
OpenQuestionPool(c) ==
    /\ pc[c] = "idle"
    /\ LoopFree(c)
    /\ question_pool' = Truncated
    /\ pc' = [pc EXCEPT ![c] = "q_open"]
    /\ UNCHANGED <<engine, engines, out, log, escaped, education_pool, frames, svars, evars, dvars>>

\* json.dump(questions, file); close
DumpQuestionPool(c) ==
    /\ pc[c] = "q_open"
    /\ question_pool' = Questions
    /\ pc' = [pc EXCEPT ![c] = "q_closed"]
    /\ UNCHANGED <<engine, engines, out, log, escaped, education_pool, frames, svars, evars, dvars>>

\* open("education_pool.json", "w")
OpenEducationPool(c) ==
    /\ pc[c] = "q_closed"
    /\ education_pool' = Truncated
    /\ pc' = [pc EXCEPT ![c] = "e_open"]
    /\ UNCHANGED <<engine, engines, out, log, escaped, question_pool, frames, svars, evars, dvars>>

\* json.dump([], file); close; the handler then waits in websocket.accept()
DumpEducationPool(c) ==
    /\ pc[c] = "e_open"
    /\ education_pool' = <<>>
    /\ pc' = [pc EXCEPT ![c] = "accepting"]
    /\ UNCHANGED <<engine, engines, out, log, escaped, question_pool, frames, svars, evars, dvars>>

\* await websocket.accept() returns, then engine = None; or it raises, and
\* the exception leaves the handler, which has not entered its try yet
Accept(c) ==
    /\ pc[c] = "accepting"
    /\ LoopFree(c)
    /\ \E accepted \in BOOLEAN :
          IF accepted
          THEN /\ engine' = [engine EXCEPT ![c] = None]
               /\ pc' = [pc EXCEPT ![c] = "loop"]
               /\ escaped' = escaped
          ELSE /\ engine' = engine
               /\ pc' = [pc EXCEPT ![c] = "accept_failed"]
               /\ escaped' = [escaped EXCEPT ![c] = TRUE]
    /\ UNCHANGED <<engines, out, log, question_pool, education_pool, frames, svars, evars, dvars>>

RecvText(c) ==
    /\ pc[c] = "loop"
    /\ LoopFree(c)
    /\ frames < MaxFrames
    /\ frames' = frames + 1
    /\ \E text \in Texts, available \in BOOLEAN :
          Apply(c, text, HandleText(c, text, engine[c], engines, available))

\* await websocket.send_json({"type": "system", ...}) of the start branch
\* returns, or raises and ends the loop through except and finally
SendDone(c) ==
    /\ pc[c] = "sending"
    /\ LoopFree(c)
    /\ \E sendOk \in BOOLEAN :
          LET e == engine[c]
              n == Len(log[c])
          IN IF sendOk
             THEN /\ out' = [out EXCEPT ![c] = Append(@,
                                 SystemFrame(<<"Transcriber initialized for ",
                                               engines[e].patient_id>>))]
                  /\ pc' = [pc EXCEPT ![c] = "loop"]
                  /\ UNCHANGED <<engines, log, escaped>>
             ELSE /\ log' = [log EXCEPT ![c][n].exc = "RuntimeError"]
                  /\ engines' = Cleanup(engines, e)
                  /\ pc' = [pc EXCEPT ![c] = "done"]
                  /\ escaped' = [escaped EXCEPT ![c] = ~Caught("RuntimeError")]
                  /\ out' = out
    /\ UNCHANGED <<engine, question_pool, education_pool, frames, svars, evars, dvars>>

RecvBytes(c) ==
    /\ pc[c] = "loop"
    /\ LoopFree(c)
    /\ frames < MaxFrames
    /\ frames' = frames + 1
    /\ Apply(c, BytesFrame, HandleBytes(engine[c], engines))

\* websocket.receive() raises once the client is gone
Disconnect(c) ==
    /\ pc[c] = "loop"
    /\ LoopFree(c)
    /\ frames' = frames
    /\ \E exc \in {"WebSocketDisconnect", "RuntimeError"} :
          Apply(c, DisconnectFrame,
                Result(engine[c], engines, <<>>, "raised", exc))

\* engine.stt_loop on its thread: leaves once told to finish or stop
SttLoopExit(e) ==
    /\ engines[e].thread = "alive"
    /\ engines[e].finishing \/ ~engines[e].running
    /\ engines' = [engines EXCEPT ![e].running = FALSE, ![e].thread = "exited"]
    /\ UNCHANGED <<pc, engine, out, log, escaped, question_pool,
                   education_pool, frames, svars, evars, dvars>>

\* ------------------------------------------------ simulation endpoints
\* simulation_scenario.SimulationAudioManager and simulation.SimulationManager
\* are outside the sources at hand: a manager is a running flag, a stop()
\* and, for SimulationManager, possibly a logic_thread.
SimulationAudioManager(patient_id) ==
    [exists |-> TRUE, patient_id |-> patient_id, running |-> TRUE,
     stops |-> 0, logic_thread |-> "absent"]

SimulationManager(patient_id, hasThread) ==
    [exists |-> TRUE, patient_id |-> patient_id, running |-> TRUE,
     stops |-> 0, logic_thread |-> IF hasThread THEN "alive" ELSE "absent"]

\* websocket.receive_json(): what it returns or raises for one frame
receive_json(frame) ==
    IF frame = DisconnectFrame THEN [exc |-> "WebSocketDisconnect", data |-> json_loads(MalformedText)]
    ELSE IF frame = BytesFrame THEN [exc |-> "KeyError", data |-> json_loads(MalformedText)]
    ELSE IF json_loads(frame).err THEN [exc |-> "JSONDecodeError", data |-> json_loads(frame)]
    ELSE [exc |-> "none", data |-> json_loads(frame)]

\* Mutant: the type of the first message is not looked at.
SimIsStart_AnyDict(data) == data.isdict

\* isinstance(data, dict) and data.get("type") == "start"
SimIsStart(data) == data.isdict /\ DictGet(data, "type", "absent") = "start"

\* The except clauses of the two simulation handlers.
SimTeardown(s, m, exc) ==
    IF ~m.exists \/ exc = "none" THEN m
    ELSE IF s = "audio"
    THEN [m EXCEPT !.running = FALSE, !.stops = @ + 1]
    ELSE IF exc = "WebSocketDisconnect"
    THEN [m EXCEPT !.running = FALSE,
                   !.logic_thread = IF @ = "absent" THEN @ ELSE "stopped"]
    ELSE [m EXCEPT !.running = FALSE]

\* await websocket.accept()
SimAccept(s) ==
    /\ sim_pc[s] = "idle"
    /\ sim_pc' = [sim_pc EXCEPT ![s] = "waiting"]
    /\ UNCHANGED <<tvars, frames, manager, sim_log, evars, dvars>>

\* data = await websocket.receive_json() and the `if` that follows it
SimReceive(s) ==
    /\ sim_pc[s] = "waiting"
    /\ frames < MaxFrames
    /\ frames' = frames + 1
    /\ \E frame \in Texts \cup {BytesFrame, DisconnectFrame}, hasThread \in BOOLEAN :
          LET r == receive_json(frame)
              pid == DictGet(r.data, "patient_id", DefaultPatient)
          IN /\ sim_log' = [sim_log EXCEPT ![s] = Append(@, [frame |-> frame, exc |-> r.exc])]
             /\ IF r.exc = "none" /\ SimIsStart(r.data)
                THEN /\ manager' = [manager EXCEPT ![s] =
                            IF s = "audio" THEN SimulationAudioManager(pid)
                            ELSE SimulationManager(pid, hasThread)]
                     /\ sim_pc' = [sim_pc EXCEPT ![s] = "running"]
                ELSE /\ manager' = manager
                     /\ sim_pc' = [sim_pc EXCEPT ![s] = "done"]
    /\ UNCHANGED <<tvars, evars, dvars>>

\* await manager.run() returns or raises
SimRunEnds(s) ==
    /\ sim_pc[s] = "running"
    /\ \E exc \in {"none", "WebSocketDisconnect", "RuntimeError"} :
          /\ manager' = [manager EXCEPT ![s] = SimTeardown(s, @, exc)]
          /\ sim_log' = [sim_log EXCEPT ![s] = Append(@, [frame |-> "<run>", exc |-> exc])]
    /\ sim_pc' = [sim_pc EXCEPT ![s] = "done"]
    /\ UNCHANGED <<tvars, frames, evars, dvars>>

\* Concurrent connections to /ws/transcriber and their engine threads.
Next ==
    \/ \E c \in Conns : OpenQuestionPool(c)
    \/ \E c \in Conns : DumpQuestionPool(c)
    \/ \E c \in Conns : OpenEducationPool(c)
    \/ \E c \in Conns : DumpEducationPool(c)
    \/ \E c \in Conns : Accept(c)
    \/ \E c \in Conns : RecvText(c)
    \/ \E c \in Conns : SendDone(c)
    \/ \E c \in Conns : RecvBytes(c)
    \/ \E c \in Conns : Disconnect(c)
    \/ \E e \in DOMAIN engines : SttLoopExit(e)

Spec == Init /\ [][Next]_vars

\* One connection to each of the three duplex session endpoints.
OneConn == {"c1"}

NextEndpoints ==
    \/ \E c \in OneConn : OpenQuestionPool(c)
    \/ \E c \in OneConn : DumpQuestionPool(c)
    \/ \E c \in OneConn : OpenEducationPool(c)
    \/ \E c \in OneConn : DumpEducationPool(c)
    \/ \E c \in OneConn : Accept(c)
    \/ \E c \in OneConn : RecvText(c)
    \/ \E c \in OneConn : SendDone(c)
    \/ \E c \in OneConn : RecvBytes(c)
    \/ \E c \in OneConn : Disconnect(c)
    \/ \E e \in DOMAIN engines : SttLoopExit(e)
    \/ \E s \in SimEndpoints : SimAccept(s)
    \/ \E s \in SimEndpoints : SimReceive(s)
    \/ \E s \in SimEndpoints : SimRunEnds(s)

SpecEndpoints == Init /\ [][NextEndpoints]_vars

\* ------------------------------------------------------------ vocabulary
StartTexts == {StartText, StartP2Text}
OtherJsonTexts == {PingText, StatusOneText, ArrayText, StringText, NumberText}

Owned(c) == {e \in DOMAIN engines : engines[e].owner = c}
Live(c) == {e \in Owned(c) : engines[e].running}

\* The step handled one more frame on connection c; Entry(c) is its record.
Handled(c) == Len(log'[c]) = Len(log[c]) + 1
Entry(c) == log'[c][Len(log'[c])]

IsWarning(frame) ==
    frame.type = "system" /\ frame.message[1] # "Transcriber initialized for "

\* ------------------------------------------------------------------ C1
\* C1: on a /ws/transcriber connection at most one engine is live at any
\* time: a second start received while an engine is active creates no
\* second engine next to the first.
C1_AtMostOneLiveEngine == \A c \in Conns : Cardinality(Live(c)) <= 1

\* ------------------------------------------------------------------ C2
\* C2: as long as no start frame has been received on a connection, no
\* engine exists for it, every audio chunk is dropped (add_audio is not
\* called) and handling the chunk does not end the receive loop.
C2_AudioBeforeStartDropped ==
    \A c \in Conns :
        (\A i \in DOMAIN log[c] : log[c][i].frame \notin StartTexts) =>
            /\ Owned(c) = {}
            /\ engine[c] = None
            /\ \A i \in DOMAIN log[c] :
                   log[c][i].frame = BytesFrame =>
                       /\ log[c][i].outcome = "dropped"
                       /\ log[c][i].exc = "none"
            /\ (log[c] # <<>> /\ log[c][Len(log[c])].frame = BytesFrame)
                   => pc[c] = "loop"

C2_Witness ==
    \E c \in Conns :
        /\ Len(log[c]) >= 2
        /\ \A i \in DOMAIN log[c] : log[c][i].frame = BytesFrame
        /\ pc[c] = "loop"

\* ------------------------------------------------------------------ C3
\* C3: a text frame that is not JSON, received while an engine is set,
\* leaves the loop running, the engine reference and every engine
\* untouched and the outbound frames unchanged; a later audio chunk that
\* finds the engine live is appended to that same engine's audio.
C3_MalformedJsonKeepsSession ==
    [][\A c \in Conns :
          /\ (Handled(c) /\ Entry(c).frame = MalformedText /\ engine[c] # None) =>
                /\ pc'[c] = "loop"
                /\ engine'[c] = engine[c]
                /\ engines' = engines
                /\ out'[c] = out[c]
          /\ (/\ Handled(c)
              /\ Entry(c).frame = BytesFrame
              /\ \E i \in DOMAIN log[c] : log[c][i].frame = MalformedText
              /\ engine[c] # None
              /\ engines[engine[c]].running) =>
                /\ engine'[c] = engine[c]
                /\ engines'[engine[c]].audio =
                       Append(engines[engine[c]].audio, Chunk)]_vars

C3_Witness ==
    \E c \in Conns : \E i, j \in DOMAIN log[c] :
        /\ i < j
        /\ log[c][i].frame = MalformedText
        /\ log[c][i].engine # None
        /\ log[c][j].outcome = "fed"
        /\ log[c][j].engine = log[c][i].engine

\* ------------------------------------------------------------------ C4
\* C4: once the handler has left the receive loop, by disconnect or by an
\* exception raised in an iteration, the engine it holds (if any) has had
\* stop() called and no exception has left the handler.
C4_TeardownOnExit ==
    \A c \in Conns :
        pc[c] = "done" =>
            /\ ~escaped[c]
            /\ engine[c] # None =>
                   /\ engines[engine[c]].stops >= 1
                   /\ ~engines[engine[c]].running

C4_Witness ==
    \E c \in Conns :
        /\ pc[c] = "done"
        /\ engine[c] # None
        /\ engines[engine[c]].stops = 1
        /\ log[c][Len(log[c])].exc \in ExceptionClasses

\* ------------------------------------------------------------------ C5
\* C5: an audio chunk is passed to add_audio only when the last control
\* frame processed before it is a start, not a stop signal.
C5_FeedOnlyWhileActive ==
    \A c \in Conns : \A i \in DOMAIN log[c] :
        log[c][i].outcome = "fed" =>
            \E s \in 1..(i - 1) :
                /\ log[c][s].outcome = "started"
                /\ \A k \in (s + 1)..(i - 1) : log[c][k].outcome # "finish"

\* ------------------------------------------------------------------ C6
\* C6: a stop signal received while no engine is set is answered with a
\* system warning frame on the connection.
C6_StopWithoutSessionWarns ==
    \A c \in Conns :
        (\E i \in DOMAIN log[c] : log[c][i].outcome = "warn_not_running") =>
            \E j \in DOMAIN out[c] : IsWarning(out[c][j])

\* ------------------------------------------------------------------ C7
\* C7: every text frame that is valid JSON and neither a stop signal nor a
\* start message is ignored: its iteration raises nothing and the loop
\* goes on.
C7_OtherJsonIgnored ==
    \A c \in Conns : \A i \in DOMAIN log[c] :
        log[c][i].frame \in OtherJsonTexts =>
            /\ log[c][i].outcome = "ignored"
            /\ log[c][i].exc = "none"
            /\ i = Len(log[c]) => pc[c] = "loop"

\* ------------------------------------------------------------------ C8
FirstControlNotStart(c) ==
    \E i \in DOMAIN log[c] :
        /\ log[c][i].frame \in Texts \ StartTexts
        /\ \A k \in 1..(i - 1) : log[c][k].frame \notin Texts

SimFirstNotStart(s) == sim_log[s] # <<>> /\ sim_log[s][1].frame \notin StartTexts

\* C8 as stated: on all three endpoints, a first control frame that is not
\* a start message means no engine or manager is ever created.
C8_FirstControlMustBeStart ==
    /\ \A c \in Conns : FirstControlNotStart(c) => Owned(c) = {}
    /\ \A s \in SimEndpoints : SimFirstNotStart(s) => ~manager[s].exists

\* C8 amended: on the two simulation endpoints a first frame that is not a
\* start message means no manager is ever created; on /ws/transcriber an
\* engine exists only once a start message has been received, whatever
\* control frames came before it.
C8_SimFirstFrameMustBeStart ==
    /\ \A s \in SimEndpoints : SimFirstNotStart(s) => ~manager[s].exists
    /\ \A c \in Conns :
           Owned(c) # {} => \E i \in DOMAIN log[c] : log[c][i].frame \in StartTexts

C8_Witness ==
    /\ \E s \in SimEndpoints :
           /\ sim_pc[s] = "done"
           /\ sim_log[s][1].frame = PingText
           /\ ~manager[s].exists
    /\ \E c \in Conns : FirstControlNotStart(c) /\ Owned(c) # {}

\* ------------------------------------------------------------------ C9
\* C9: a start frame handled while the seed context is unavailable fails:
\* the fetch raises out of the loop, no engine is constructed, no thread is
\* started, nothing is sent and the handler ends; and no engine ever holds
\* an empty text in place of a context.
C9_FetchFailureFailsStart ==
    [][/\ \A e \in DOMAIN engines' : engines'[e].patient_info # NoContext
       /\ \A c \in Conns :
             (Handled(c) /\ Entry(c).fetch = "unavailable") =>
                /\ Entry(c).exc = "FetchFailure"
                /\ Len(engines') = Len(engines)
                /\ \A e \in DOMAIN engines : engines'[e].thread = engines[e].thread
                /\ engine'[c] = engine[c]
                /\ out'[c] = out[c]
                /\ pc'[c] = "done"]_vars

C9_Witness ==
    \E c \in Conns : \E i \in DOMAIN log[c] :
        /\ log[c][i].frame \in StartTexts
        /\ log[c][i].fetch = "unavailable"
        /\ log[c][i].outcome = "start_failed"
        /\ pc[c] = "done"

\* ------------------------------------------------------------------ C10
SessionActive(d) ==
    Open(d) /\ engine[d] # None /\ engines[engine[d]].running

\* C10: a step of a connecting handler leaves the question pool and the
\* education pool as they are whenever another connection has an active
\* session.
C10_AcceptLeavesPoolsAlone ==
    [][\A c \in Conns :
          (/\ pc[c] \in {"idle"} \cup Connecting
           /\ pc'[c] # pc[c]
           /\ \E d \in Conns \ {c} : SessionActive(d)) =>
              /\ question_pool' = question_pool
              /\ education_pool' = education_pool]_vars

\* ------------------------------------------------------ recognition events
\* The engine reports events from its ingestion thread and hands each one to
\* main_loop to be written on the websocket it was constructed with.  That
\* code is outside the sources at hand; it follows the bridge contract: one
\* hand-off queue, written by the thread, drained by the loop.
MaxEvents == 3          \* events emitted, summed over all engines

RECURSIVE EmittedCount(_)
EmittedCount(engs) ==
    IF engs = <<>> THEN 0
    ELSE Len(Head(engs).emitted) + EmittedCount(Tail(engs))

EventFrame(h) == [type |-> "event", message |-> <<"event", h.engine, h.event>>]

\* Mutant: the newest event is handed over in front of the waiting ones.
Marshal_Lifo(queue, h) == <<h>> \o queue

\* The hand-off from the ingestion thread to main_loop.
Marshal(queue, h) == Append(queue, h)

\* stt_loop recognises something and reports it
SttEmit(e) ==
    /\ engines[e].thread = "alive"
    /\ engines[e].running
    /\ EmittedCount(engines) < MaxEvents
    /\ LET n == Len(engines[e].emitted) + 1
       IN /\ engines' = [engines EXCEPT ![e].emitted = Append(@, n)]
          /\ scheduled' = Marshal(scheduled, [engine |-> e, event |-> n])
    /\ UNCHANGED <<pc, engine, out, log, escaped, question_pool,
                   education_pool, frames, svars, dvars>>

\* main_loop runs the oldest queued send; on a closed connection it fails
LoopSend ==
    /\ scheduled # <<>>
    /\ \A d \in Conns : pc[d] \notin Connecting
    /\ LET h == Head(scheduled)
           c == engines[h.engine].owner
       IN out' = IF Open(c)
                 THEN [out EXCEPT ![c] = Append(@, EventFrame(h))]
                 ELSE out
    /\ scheduled' = Tail(scheduled)
    /\ UNCHANGED <<pc, engine, engines, log, escaped, question_pool,
                   education_pool, frames, svars, dvars>>

\* One /ws/transcriber connection, its engines' threads and main_loop.
NextEvents ==
    \/ \E c \in OneConn : OpenQuestionPool(c)
    \/ \E c \in OneConn : DumpQuestionPool(c)
    \/ \E c \in OneConn : OpenEducationPool(c)
    \/ \E c \in OneConn : DumpEducationPool(c)
    \/ \E c \in OneConn : Accept(c)
    \/ \E c \in OneConn : RecvText(c)
    \/ \E c \in OneConn : SendDone(c)
    \/ \E c \in OneConn : RecvBytes(c)
    \/ \E c \in OneConn : Disconnect(c)
    \/ \E e \in DOMAIN engines : SttLoopExit(e)
    \/ \E e \in DOMAIN engines : SttEmit(e)
    \/ LoopSend

SpecEvents == Init /\ [][NextEvents]_vars

\* ------------------------------------------------------------------ C11
IsEventOf(f, e) == f.type = "event" /\ f.message[2] = e

\* Event numbers of engine e written on connection c, in the order written.
Delivered(c, e) ==
    LET evs == SelectSeq(out[c], LAMBDA f : IsEventOf(f, e))
    IN [i \in 1..Len(evs) |-> evs[i].message[3]]

\* Event numbers of engine e still waiting on main_loop, oldest first.
Queued(e) ==
    LET evs == SelectSeq(scheduled, LAMBDA h : h.engine = e)
    IN [i \in 1..Len(evs) |-> evs[i].event]

IsPrefix(a, b) == Len(a) <= Len(b) /\ \A i \in 1..Len(a) : a[i] = b[i]

\* C11: the events an engine emitted reach its connection in the order
\* emitted; while the connection is open each emitted event is either
\* written or still queued behind the written ones, so none is lost or
\* overtaken, whatever the receive loop does in between.
C11_EventsInOrder ==
    \A c \in Conns : \A e \in Owned(c) :
        /\ IsPrefix(Delivered(c, e), engines[e].emitted)
        /\ Open(c) => Delivered(c, e) \o Queued(e) = engines[e].emitted

C11_Witness ==
    \E c \in Conns : \E e \in Owned(c) :
        /\ Delivered(c, e) = <<1, 2, 3>>
        /\ Len(log[c]) >= 2
        /\ pc[c] = "loop"

\* ---------------------------------------------------------- document store
\* A string is the sequence of its characters.  "e'" stands for the one
\* character U+00E9, "bs" for U+005C and "bt" for U+0060.
Printable ==        \* the characters U+0020 .. U+007E, in code order
    <<
     " ", "!", "\"", "#", "$", "%", "&", "'", "(", ")", "*", "+", ",", "-", ".", "/",
     "0", "1", "2", "3", "4", "5", "6", "7", "8", "9", ":", ";", "<", "=", ">", "?",
     "@", "A", "B", "C", "D", "E", "F", "G", "H", "I", "J", "K", "L", "M", "N", "O",
     "P", "Q", "R", "S", "T", "U", "V", "W", "X", "Y", "Z", "[", "bs", "]", "^", "_",
     "bt", "a", "b", "c", "d", "e", "f", "g", "h", "i", "j", "k", "l", "m", "n", "o",
     "p", "q", "r", "s", "t", "u", "v", "w", "x", "y", "z", "{", "|", "}", "~">>

Chars == {Printable[i] : i \in 1..Len(Printable)} \cup {"\n", "e'"}

CodePoint ==
    [ch \in Chars |->
        IF ch = "\n" THEN 10
        ELSE IF ch = "e'" THEN 233
        ELSE 31 + CHOOSE i \in 1..Len(Printable) : Printable[i] = ch]

\* ord(ch) and chr(code)
Ord(ch) == CodePoint[ch]

Chr(code) ==
    IF code = 10 THEN "\n"
    ELSE IF code = 233 THEN "e'"
    ELSE Printable[code - 31]

Root == <<"p", "a", "t", "i", "e", "n", "t", "_", "p", "r", "o", "f", "i", "l", "e">>
Slash == "/"
Dot == "."

\* f"patient_profile/{pid}/{file_name}"
BlobPath(pid, file_name) == Root \o <<Slash>> \o pid \o <<Slash>> \o file_name

\* Mutant: the prefix without its closing separator.
PatientPrefix_NoSlash(pid) == Root \o <<Slash>> \o pid

\* f"patient_profile/{pid}/"
PatientPrefix(pid) == Root \o <<Slash>> \o pid \o <<Slash>>

\* "patient_profile/"
RootPrefix == Root \o <<Slash>>

\* "patient_info.md"
SeedName == <<"p", "a", "t", "i", "e", "n", "t", "_", "i", "n", "f", "o", ".", "m", "d">>
\* "# Patient Profile\nName: \nAge: "
SeedContent ==
    <<"#", " ", "P", "a", "t", "i", "e", "n", "t", " ", "P", "r", "o", "f", "i", "l", "e", "\n">>
    \o <<"N", "a", "m", "e", ":", " ", "\n">>
    \o <<"A", "g", "e", ":", " ">>

StartsWith(str, pre) ==
    Len(pre) <= Len(str) /\ SubSeq(str, 1, Len(pre)) = pre

Drop(str, n) == SubSeq(str, n + 1, Len(str))

\* str.replace(old, new): every occurrence, left to right
RECURSIVE Replace(_, _, _)
Replace(str, old, new) ==
    IF str = <<>> \/ old = <<>> THEN str
    ELSE IF StartsWith(str, old) THEN new \o Replace(Drop(str, Len(old)), old, new)
    ELSE <<Head(str)>> \o Replace(Tail(str), old, new)

\* str.lower()
Lower(str) ==
    [i \in 1..Len(str) |->
        IF Ord(str[i]) \in 65..90 THEN Chr(Ord(str[i]) + 32) ELSE str[i]]

\* str.rstrip('/')
RECURSIVE RStrip(_)
RStrip(str) ==
    IF str # <<>> /\ str[Len(str)] = Slash
    THEN RStrip(SubSeq(str, 1, Len(str) - 1))
    ELSE str

\* str.split(sep)[-1]: what follows the last separator
RECURSIVE LastPart(_, _)
LastPart(str, sep) ==
    IF \E i \in 1..Len(str) : str[i] = sep
    THEN LastPart(Tail(str), sep)
    ELSE str

\* str.split(sep)[0]: what precedes the first separator
RECURSIVE FirstPart(_, _)
FirstPart(str, sep) ==
    IF str = <<>> \/ Head(str) = sep THEN <<>>
    ELSE <<Head(str)>> \o FirstPart(Tail(str), sep)

\* Mutant: the part before the first dot is taken for the extension.
FileExt_First(file_name) == FirstPart(Lower(file_name), Dot)

\* request.file_name.lower().split('.')[-1]
FileExt(file_name) == LastPart(Lower(file_name), Dot)

\* ------------------------------------------------------------ UTF-8, JSON
Utf8Char(ch) ==
    IF Ord(ch) < 128 THEN <<Ord(ch)>>
    ELSE <<192 + (Ord(ch) \div 64), 128 + (Ord(ch) % 64)>>

\* str.encode("utf-8"), as blob.upload_from_string does for a str
RECURSIVE Utf8Encode(_)
Utf8Encode(text) ==
    IF text = <<>> THEN <<>>
    ELSE Utf8Char(Head(text)) \o Utf8Encode(Tail(text))

\* bytes.decode("utf-8"), as blob.download_as_text does
RECURSIVE Utf8Decode(_)
Utf8Decode(data) ==
    IF data = <<>> THEN <<>>
    ELSE IF Head(data) < 128
    THEN <<Chr(Head(data))>> \o Utf8Decode(Tail(data))
    ELSE <<Chr((Head(data) - 192) * 64 + (data[2] - 128))>>
             \o Utf8Decode(Drop(data, 2))

\* json.loads on a document: the value, written without insignificant
\* white space, or err for JSONDecodeError
JsonDocument(text) ==
    LET bare == SelectSeq(text, LAMBDA ch : ch # " ")
    IN IF bare \in {<<"1">>, <<"[", "]">>, <<"[", "1", "]">>}
       THEN [err |-> FALSE, value |-> bare]
       ELSE [err |-> TRUE, value |-> <<>>]

\* ------------------------------------------------------------ the bucket
Blob(name, data, content_type) ==
    [name |-> name, data |-> data, content_type |-> content_type]

\* blob.exists()
Exists(bucket, name) == \E b \in bucket : b.name = name

\* blob.upload_from_string(content, content_type=...)
Upload(bucket, name, text, content_type) ==
    {b \in bucket : b.name # name} \cup {Blob(name, Utf8Encode(text), content_type)}

\* blob.delete()
DeleteBlob(bucket, name) == {b \in bucket : b.name # name}

\* list_blobs(prefix=prefix)
ListBlobs(bucket, prefix) == {b \in bucket : StartsWith(b.name, prefix)}

\* The order in which a listing yields blobs: by name, byte by byte.
RECURSIVE Before(_, _)
Before(a, b) ==
    IF a = <<>> THEN TRUE
    ELSE IF b = <<>> THEN FALSE
    ELSE IF Head(a) = Head(b) THEN Before(Tail(a), Tail(b))
    ELSE Head(a) < Head(b)

\* list(bucket.list_blobs(prefix=prefix)): the names, in listing order
RECURSIVE InOrder(_)
InOrder(names) ==
    IF names = {} THEN <<>>
    ELSE LET first == CHOOSE n \in names :
                          \A m \in names : Before(Utf8Encode(n), Utf8Encode(m))
         IN <<first>> \o InOrder(names \ {first})

\* list_blobs(prefix=prefix, delimiter="/").prefixes
ListPrefixes(bucket, prefix) ==
    LET rest(b) == Drop(b.name, Len(prefix))
    IN {prefix \o FirstPart(rest(b), Slash) \o <<Slash>> :
            b \in {x \in ListBlobs(bucket, prefix) :
                       \E i \in 1..Len(rest(x)) : rest(x)[i] = Slash}}

\* ------------------------------------------------- document-store endpoints
MaxWrites == 2          \* save and create requests made

\* Patient ids and file names the requests are drawn from.
P1 == <<"p", "1">>
P10 == <<"p", "1", "0">>
P1A == <<"p", "1", "/", "a">>
Pids == {P1, P10, P1A}
\* /api/admin/list-files/{pid}: a path segment holds no "/"
PathPids == {pid \in Pids : \A i \in 1..Len(pid) : pid[i] # Slash}

NoteMd == <<"a", ".", "m", "d">>
NestedMd == <<"a", "/", "a", ".", "m", "d">>
PrefixedMd == PatientPrefix(P1) \o NoteMd           \* "patient_profile/p1/a.md"
EmptyName == <<>>                                   \* ""
\* The documents (patient id, file name) the admin requests name: in the
\* folders of two patients, and with "/" or the folder prefix in a name.
FolderDocs == {<<P1, NoteMd>>, <<P10, NoteMd>>}
KeyDocs == {<<P1, NoteMd>>, <<P1, NestedMd>>, <<P1A, NoteMd>>, <<P1, PrefixedMd>>,
            <<P1, EmptyName>>}
FolderContents == {<<"1">>}

DataJson == <<"x", ".", "j", "s", "o", "n">>
UpperJson == <<"x", ".", "J", "S", "O", "N">>
ImagePng == <<"i", ".", "p", "n", "g">>
PhotoJpg == <<"i", ".", "j", "p", "g">>
PlainBin == <<"b", ".", "b", "i", "n">>
TypedFiles == {DataJson, UpperJson, NoteMd, ImagePng, PhotoJpg, PlainBin}
Contents == {<<" ", "1">>, <<"[", "1", " ", "]">>, <<"[", "1">>, <<"#", "e'">>, <<>>}

Response(op, pid, file_name, status, kind, body) ==
    [op |-> op, pid |-> pid, file_name |-> file_name, status |-> status,
     kind |-> kind, body |-> body]

\* Where a request stands between two calls to the bucket: what it is, and
\* for delete-patient the names listed and not deleted yet and how many
\* were listed.
Call(op, pid, file_name, todo, count) ==
    [op |-> op, pid |-> pid, file_name |-> file_name, todo |-> todo,
     count |-> count]

\* The request returns its response.
Answer(bucket, r) == [bucket |-> bucket, resp |-> r, call |-> Idle]

\* The request goes on to its next call to the bucket.
Suspend(bucket, call) ==
    [bucket |-> bucket,
     resp |-> Response("pending", call.pid, call.file_name, 0, "none", <<>>),
     call |-> call]

\* "image/png" if file_ext == 'png' else "image/jpeg"
MediaType(ext) == IF ext = <<"p", "n", "g">> THEN "image/png" ELSE "image/jpeg"

\* POST /api/get-patient-file: blob.exists(), then the download
get_patient_file(call, bucket, pid, file_name) ==
    LET blob_path == BlobPath(pid, file_name)
        data == (CHOOSE b \in bucket : b.name = blob_path).data
        file_ext == FileExt(file_name)
        R(status, kind, body) ==
            Answer(bucket, Response("get", pid, file_name, status, kind, body))
    IN IF call = Idle
       THEN IF ~Exists(bucket, blob_path)
            THEN R(404, "error", blob_path)
            ELSE Suspend(bucket, Call("get", pid, file_name, <<>>, 0))
       ELSE IF ~Exists(bucket, blob_path)    \* the download raises NotFound
       THEN R(500, "error", <<>>)
       ELSE IF file_ext = <<"j", "s", "o", "n">>
       THEN IF JsonDocument(Utf8Decode(data)).err
            THEN R(500, "error", <<>>)
            ELSE R(200, "application/json", JsonDocument(Utf8Decode(data)).value)
       ELSE IF file_ext \in {<<"m", "d">>, <<"t", "x", "t">>}
       THEN R(200, "text/markdown", Utf8Decode(data))
       ELSE IF file_ext \in {<<"p", "n", "g">>, <<"j", "p", "g">>,
                             <<"j", "p", "e", "g">>}
       THEN R(200, MediaType(file_ext), data)
       ELSE R(200, "application/octet-stream", data)

\* GET /api/admin/list-files/{pid}
list_patient_files(bucket, pid) ==
    LET prefix == PatientPrefix(pid)
        clean_name(b) == Replace(b.name, prefix, <<>>)
        file_list == {[name |-> clean_name(b), full_path |-> b.name,
                       size |-> Len(b.data)] :
                          b \in {x \in ListBlobs(bucket, prefix) : clean_name(x) # <<>>}}
    IN Answer(bucket, Response("list_files", pid, <<>>, 200, "files", file_list))

\* POST /api/admin/save-file
save_patient_file(bucket, pid, file_name, content) ==
    LET blob_path == BlobPath(pid, file_name)
    IN Answer(Upload(bucket, blob_path, content, "text/plain"),
              Response("save", pid, file_name, 200, "message", blob_path))

\* DELETE /api/admin/delete-file: blob.exists(), then blob.delete()
delete_patient_file(call, bucket, pid, file_name) ==
    LET blob_path == BlobPath(pid, file_name)
        R(b, status, kind) ==
            Answer(b, Response("delete_file", pid, file_name, status, kind, <<>>))
    IN IF call = Idle
       THEN IF Exists(bucket, blob_path)
            THEN Suspend(bucket, Call("delete_file", pid, file_name, <<>>, 0))
            ELSE R(bucket, 404, "error")
       ELSE IF ~Exists(bucket, blob_path)    \* blob.delete() raises NotFound
       THEN R(bucket, 500, "error")
       ELSE R(DeleteBlob(bucket, blob_path), 200, "message")

\* GET /api/admin/list-patients
list_patients(bucket) ==
    LET patients == {LastPart(RStrip(pre), Slash) :
                        pre \in ListPrefixes(bucket, RootPrefix)}
    IN Answer(bucket, Response("list_patients", <<>>, <<>>, 200, "patients", patients))

\* Mutant: create-patient writes the seed document without looking first.
create_patient_NoLook(call, bucket, pid) ==
    Answer(Upload(bucket, BlobPath(pid, SeedName), SeedContent, "text/markdown"),
           Response("create_patient", pid, <<>>, 200, "message", pid))

\* POST /api/admin/create-patient: blob.exists(), then the upload
create_patient(call, bucket, pid) ==
    LET blob_path == BlobPath(pid, SeedName)
    IN IF call = Idle
       THEN IF Exists(bucket, blob_path)
            THEN Answer(bucket,
                        Response("create_patient", pid, <<>>, 400, "error", <<>>))
            ELSE Suspend(bucket, Call("create_patient", pid, <<>>, <<>>, 0))
       ELSE Answer(Upload(bucket, blob_path, SeedContent, "text/markdown"),
                   Response("create_patient", pid, <<>>, 200, "message", pid))

\* Mutant: the response is given once the first blob listed is deleted.
delete_patient_OnlyOne(call, bucket, pid) ==
    LET found == InOrder({b.name : b \in ListBlobs(bucket, PatientPrefix(pid))})
        R(b, status, kind, body) ==
            Answer(b, Response("delete_patient", pid, <<>>, status, kind, body))
    IN IF call = Idle
       THEN IF found = <<>>
            THEN R(bucket, 404, "error", <<>>)
            ELSE Suspend(bucket,
                         Call("delete_patient", pid, <<>>, found, Len(found)))
       ELSE IF ~Exists(bucket, Head(call.todo))
       THEN R(bucket, 500, "error", <<>>)
       ELSE R(DeleteBlob(bucket, Head(call.todo)), 200, "message", <<call.count>>)

\* DELETE /api/admin/delete-patient: the listing, then bucket.delete_blobs,
\* one blob.delete() after the other, raising on the first blob not found
delete_patient(call, bucket, pid) ==
    LET found == InOrder({b.name : b \in ListBlobs(bucket, PatientPrefix(pid))})
        R(b, status, kind, body) ==
            Answer(b, Response("delete_patient", pid, <<>>, status, kind, body))
    IN IF call = Idle
       THEN IF found = <<>>
            THEN R(bucket, 404, "error", <<>>)
            ELSE Suspend(bucket,
                         Call("delete_patient", pid, <<>>, found, Len(found)))
       ELSE IF ~Exists(bucket, Head(call.todo))
       THEN R(bucket, 500, "error", <<>>)
       ELSE IF Tail(call.todo) = <<>>
       THEN R(DeleteBlob(bucket, Head(call.todo)), 200, "message", <<call.count>>)
       ELSE Suspend(DeleteBlob(bucket, Head(call.todo)),
                    [call EXCEPT !.todo = Tail(@)])

\* A request is taken by a free thread of the pool; which one makes no
\* difference, so the first free one takes it.
Free(t) == calls[t] = Idle /\ \A u \in Workers : u < t => calls[u] # Idle

\* One call to the bucket made by the request on thread t, and the response
\* when it was the request's last.  `saved` and `seeded` follow what the
\* bucket still holds.
Request(t, a, counted, newSaved, newSeeded) ==
    /\ blobs' = a.bucket
    /\ calls' = [calls EXCEPT ![t] = a.call]
    /\ resp' = IF a.resp.op = "pending" THEN resp
               ELSE [op |-> a.resp.op, pid |-> a.resp.pid,
                     file_name |-> a.resp.file_name, status |-> a.resp.status,
                     kind |-> a.resp.kind, body |-> a.resp.body,
                     worker |-> t, seq |-> 1 - resp.seq]
    /\ IF counted
       THEN /\ writes < MaxWrites
            /\ writes' = writes + 1
       ELSE writes' = writes
    /\ saved' = {x \in newSaved : Exists(a.bucket, BlobPath(x.pid, x.file_name))}
    /\ seeded' = {pid \in newSeeded : Exists(a.bucket, BlobPath(pid, SeedName))}
    /\ UNCHANGED <<tvars, frames, svars, evars>>

SaveFile(t, pid, file_name, content) ==
    /\ Free(t)
    /\ Request(t, save_patient_file(blobs, pid, file_name, content), TRUE,
               {x \in saved : BlobPath(x.pid, x.file_name) # BlobPath(pid, file_name)}
                   \cup {[pid |-> pid, file_name |-> file_name, content |-> content]},
               seeded)

GetFile(t, pid, file_name) ==
    /\ Free(t)
    /\ Request(t, get_patient_file(Idle, blobs, pid, file_name), FALSE, saved, seeded)

GetFileDownload(t) ==
    /\ calls[t].op = "get"
    /\ Request(t, get_patient_file(calls[t], blobs, calls[t].pid, calls[t].file_name),
               FALSE, saved, seeded)

ListFiles(t, pid) ==
    /\ Free(t)
    /\ Request(t, list_patient_files(blobs, pid), FALSE, saved, seeded)

DeleteFile(t, pid, file_name) ==
    /\ Free(t)
    /\ Request(t, delete_patient_file(Idle, blobs, pid, file_name), FALSE, saved, seeded)

DeleteFileDelete(t) ==
    /\ calls[t].op = "delete_file"
    /\ Request(t, delete_patient_file(calls[t], blobs, calls[t].pid,
                                      calls[t].file_name),
               FALSE, saved, seeded)

ListPatients(t) ==
    /\ Free(t)
    /\ Request(t, list_patients(blobs), FALSE, saved, seeded)

\* A call to the bucket made by a create-patient request: once it answers
\* 200 the seed document is in the place of what was saved under its key.
CreateRequest(t, a, counted) ==
    IF a.resp.status = 200
    THEN Request(t, a, counted,
                 {x \in saved :
                      BlobPath(x.pid, x.file_name) # BlobPath(a.resp.pid, SeedName)},
                 seeded \cup {a.resp.pid})
    ELSE Request(t, a, counted, saved, seeded)

CreatePatient(t, pid) ==
    /\ Free(t)
    /\ CreateRequest(t, create_patient(Idle, blobs, pid), TRUE)

CreatePatientUpload(t) ==
    /\ calls[t].op = "create_patient"
    /\ CreateRequest(t, create_patient(calls[t], blobs, calls[t].pid), FALSE)

DeletePatient(t, pid) ==
    /\ Free(t)
    /\ Request(t, delete_patient(Idle, blobs, pid), FALSE, saved, seeded)

DeletePatientDelete(t) ==
    /\ calls[t].op = "delete_patient"
    /\ Request(t, delete_patient(calls[t], blobs, calls[t].pid), FALSE, saved, seeded)

\* The admin surface over patient folders.
NextStore ==
    \/ \E t \in Workers, d \in FolderDocs, c \in FolderContents :
           SaveFile(t, d[1], d[2], c)
    \/ \E t \in Workers, pid \in PathPids : ListFiles(t, pid)
    \/ \E t \in Workers, d \in FolderDocs : DeleteFile(t, d[1], d[2])
    \/ \E t \in Workers : DeleteFileDelete(t)
    \/ \E t \in Workers : ListPatients(t)
    \/ \E t \in Workers, pid \in Pids : CreatePatient(t, pid)
    \/ \E t \in Workers : CreatePatientUpload(t)
    \/ \E t \in Workers, pid \in Pids : DeletePatient(t, pid)
    \/ \E t \in Workers : DeletePatientDelete(t)

SpecStore == Init /\ [][NextStore]_vars

\* Documents whose patient id or file name holds a separator or the prefix.
NextKeys ==
    \/ \E t \in Workers, d \in KeyDocs, c \in FolderContents :
           SaveFile(t, d[1], d[2], c)
    \/ \E t \in Workers, d \in KeyDocs : GetFile(t, d[1], d[2])
    \/ \E t \in Workers : GetFileDownload(t)
    \/ \E t \in Workers, pid \in PathPids : ListFiles(t, pid)
    \/ \E t \in Workers, d \in KeyDocs : DeleteFile(t, d[1], d[2])
    \/ \E t \in Workers : DeleteFileDelete(t)

SpecKeys == Init /\ [][NextKeys]_vars

\* Saving and fetching documents of every media kind for one patient, one
\* document in the bucket at a time.
NextRoundTrip ==
    \/ \E t \in Workers, f \in TypedFiles, c \in Contents :
           /\ \A b \in blobs : b.name = BlobPath(P1, f)
           /\ SaveFile(t, P1, f, c)
    \/ \E t \in Workers, f \in TypedFiles : GetFile(t, P1, f)
    \/ \E t \in Workers : GetFileDownload(t)
    \/ \E t \in Workers, f \in TypedFiles : DeleteFile(t, P1, f)
    \/ \E t \in Workers : DeleteFileDelete(t)

SpecRoundTrip == Init /\ [][NextRoundTrip]_vars

\* ------------------------------------------------------------ vocabulary
\* The step answered one more request, of kind op.
IsStep(op) == resp'.seq # resp.seq /\ resp'.op = op

\* The step is the first call to the bucket of a request op for patient
\* pid, taken by thread t; it may answer the request at once.
Began(t, op, pid) ==
    /\ calls[t] = Idle
    /\ \/ calls'[t].op = op /\ calls'[t].pid = pid
       \/ IsStep(op) /\ resp'.worker = t /\ resp'.pid = pid

\* The step answers, on thread t, a request that is not left in the middle.
Answered(t, op, status) ==
    IsStep(op) /\ resp'.worker = t /\ resp'.status = status /\ calls'[t] = Idle

\* The blobs whose key starts with root/pid/.
UnderFolder(bucket, pid) ==
    {b \in bucket : StartsWith(b.name, Root \o <<Slash>> \o pid \o <<Slash>>)}

\* The last request answered fetched the document x that save-file stored.
Fetched(x) ==
    resp.op = "get" /\ resp.pid = x.pid /\ resp.file_name = x.file_name

\* ------------------------------------------------------------------ C12
\* C12 as stated: a document fetched after it was saved, and not written
\* or deleted since, comes back as it was saved, for every content: .json
\* as the decoded structure, .md as the same text, .png as the same bytes
\* typed image/png.
C12_RoundTrip ==
    \A x \in saved :
        Fetched(x) =>
            /\ x.file_name = DataJson =>
                   /\ resp.status = 200
                   /\ resp.kind = "application/json"
                   /\ ~JsonDocument(x.content).err
                   /\ resp.body = JsonDocument(x.content).value
            /\ x.file_name = NoteMd =>
                   /\ resp.status = 200
                   /\ resp.kind = "text/markdown"
                   /\ resp.body = x.content
            /\ x.file_name = ImagePng =>
                   /\ resp.status = 200
                   /\ resp.kind = "image/png"
                   /\ resp.body = Utf8Encode(x.content)

\* C12 amended: the same, except that a .json document whose content is
\* not valid JSON is stored by save-file and answered with 500 by
\* get-patient-file.
C12_RoundTripValidJson ==
    \A x \in saved :
        Fetched(x) =>
            /\ x.file_name = DataJson =>
                   IF JsonDocument(x.content).err
                   THEN resp.status = 500
                   ELSE /\ resp.status = 200
                        /\ resp.kind = "application/json"
                        /\ resp.body = JsonDocument(x.content).value
            /\ x.file_name = NoteMd =>
                   /\ resp.status = 200
                   /\ resp.kind = "text/markdown"
                   /\ resp.body = x.content
            /\ x.file_name = ImagePng =>
                   /\ resp.status = 200
                   /\ resp.kind = "image/png"
                   /\ resp.body = Utf8Encode(x.content)

C12_Witness ==
    \E x \in saved :
        /\ Fetched(x)
        /\ x.file_name = DataJson
        /\ x.content = <<" ", "1">>
        /\ resp.status = 200
        /\ resp.body = <<"1">>

\* ------------------------------------------------------------------ C13
\* C13: a create-patient request that finds some blob, of whatever name,
\* under root/P/ answers 400 and leaves the bucket as it is; one that finds
\* none goes on to write the seed document, and a create-patient request
\* that answers 200 has added at most one blob, which lies under root/P/.
C13_CreateFailsIffFolderNonEmpty ==
    [][\A t \in Workers :
          /\ \A pid \in Pids :
                Began(t, "create_patient", pid) =>
                    /\ blobs' = blobs
                    /\ UnderFolder(blobs, pid) # {}
                           <=> Answered(t, "create_patient", 400)
          /\ Answered(t, "create_patient", 200) =>
                /\ blobs \subseteq blobs'
                /\ blobs' \ blobs \subseteq UnderFolder(blobs', resp'.pid)
                /\ Cardinality(blobs' \ blobs) <= 1]_vars

\* ------------------------------------------------------------------ C14
\* C14 as stated: a delete-patient request that finds no blob under
\* root/Y/ answers 404 and changes nothing; one that finds blobs under
\* root/Z/ answers 200 and leaves no blob under root/Z/.  list-patients
\* never names a patient without a blob under its folder.
C14_DeletePatient ==
    [][/\ \A t \in Workers : \A pid \in Pids :
             /\ (Began(t, "delete_patient", pid) /\ UnderFolder(blobs, pid) = {})
                    => Answered(t, "delete_patient", 404) /\ blobs' = blobs
             /\ (/\ calls[t].op = "delete_patient"
                 /\ calls[t].pid = pid
                 /\ calls'[t] = Idle)
                    => /\ Answered(t, "delete_patient", 200)
                       /\ UnderFolder(blobs', pid) = {}
       /\ IsStep("list_patients") =>
             \A pid \in Pids : UnderFolder(blobs, pid) = {} => pid \notin resp'.body]_vars

\* C14 amended: a delete-patient request that finds no blob under root/Y/
\* answers 404 and changes nothing.  One that finds blobs under root/Z/
\* takes exactly those, in name order, and deletes them one call at a
\* time: each call removes the next blob listed and nothing else, the
\* request answers 200 with the number listed when the last one is
\* removed, and it answers 500 and stops, leaving the bucket as it is,
\* when the next blob listed is no longer there.  list-patients never names
\* a patient without a blob under its folder.
C14_DeletePatientBestEffort ==
    [][/\ \A t \in Workers : \A pid \in Pids :
             /\ (Began(t, "delete_patient", pid) /\ UnderFolder(blobs, pid) = {})
                    => Answered(t, "delete_patient", 404) /\ blobs' = blobs
             /\ (Began(t, "delete_patient", pid) /\ UnderFolder(blobs, pid) # {})
                    => /\ calls'[t].op = "delete_patient"
                       /\ {calls'[t].todo[i] : i \in DOMAIN calls'[t].todo}
                              = {b.name : b \in UnderFolder(blobs, pid)}
                       /\ \A i, j \in DOMAIN calls'[t].todo :
                              i < j => /\ calls'[t].todo[i] # calls'[t].todo[j]
                                       /\ Before(Utf8Encode(calls'[t].todo[i]),
                                                 Utf8Encode(calls'[t].todo[j]))
                       /\ calls'[t].count = Cardinality(UnderFolder(blobs, pid))
                       /\ blobs' = blobs
             /\ (/\ calls[t].op = "delete_patient"
                 /\ calls[t].pid = pid
                 /\ calls'[t] # calls[t])
                    => LET next == Head(calls[t].todo)
                       IN IF \E b \in blobs : b.name = next
                          THEN /\ blobs' = {b \in blobs : b.name # next}
                               /\ IF Len(calls[t].todo) = 1
                                  THEN /\ Answered(t, "delete_patient", 200)
                                       /\ resp'.body = <<calls[t].count>>
                                  ELSE /\ calls'[t].op = "delete_patient"
                                       /\ calls'[t].todo = Tail(calls[t].todo)
                                       /\ resp' = resp
                          ELSE /\ Answered(t, "delete_patient", 500)
                               /\ blobs' = blobs
       /\ IsStep("list_patients") =>
             \A pid \in Pids : UnderFolder(blobs, pid) = {} => pid \notin resp'.body]_vars

C14_Witness ==
    /\ resp.op = "delete_patient"
    /\ resp.status = 200
    /\ resp.body = <<2>>
    /\ UnderFolder(blobs, resp.pid) = {}

\* ------------------------------------------------------------------ C15
\* C15: two (patient id, file name) pairs share a blob key only if they
\* are the same pair, so a fetch that finds a blob finds it only for the
\* very pair that save-file stored it under.
C15_KeyInjective ==
    \A x \in saved :
        /\ resp.op = "get"
        /\ resp.status = 200
        /\ BlobPath(resp.pid, resp.file_name) = BlobPath(x.pid, x.file_name)
        => resp.pid = x.pid /\ resp.file_name = x.file_name

\* ------------------------------------------------------------------ C16
\* C16: in every state, for every patient id P, list-patients names P
\* exactly when a blob lies under root/P/, which is exactly when a
\* delete-patient request on P would not answer 404; and a create-patient
\* request never takes for absent a patient that list-patients names.
C16_OneExistencePredicate ==
    \A pid \in Pids :
        LET listed    == pid \in list_patients(blobs).resp.body
            present   == UnderFolder(blobs, pid) # {}
            deletable == delete_patient(Idle, blobs, pid).resp.status # 404
            creatable == create_patient(Idle, blobs, pid).resp.status # 400
        IN /\ listed <=> present
           /\ present <=> deletable
           /\ creatable => ~listed

\* ------------------------------------------------------------------ C17
\* C17: list-files answers one entry for each blob under root/P/ other
\* than the bare marker root/P/ itself, and the name of each entry is the
\* key without its leading root/P/, so that root/P/ followed by the name
\* is the entry's full_path.
C17_ListStripsLeadingPrefix ==
    [][IsStep("list_files") =>
          LET pre  == Root \o <<Slash>> \o resp'.pid \o <<Slash>>
              docs == {b \in UnderFolder(blobs, resp'.pid) : b.name # pre}
          IN /\ Cardinality(resp'.body) = Cardinality(docs)
             /\ \A b \in docs :
                    \E e \in resp'.body :
                        /\ e.full_path = b.name
                        /\ e.name = Drop(b.name, Len(pre))
             /\ \A e \in resp'.body : pre \o e.name = e.full_path]_vars

\* ------------------------------------------------------------------ C18
\* C18: a create-patient request made for a patient whose seed document,
\* written by an earlier create-patient, is still in the bucket answers
\* 400 at once and leaves the bucket, the seed document included, as it
\* was.
C18_SecondCreateFails ==
    [][\A t \in Workers : \A pid \in seeded :
          Began(t, "create_patient", pid) =>
              Answered(t, "create_patient", 400) /\ blobs' = blobs]_vars

C18_Witness ==
    /\ resp.op = "create_patient"
    /\ resp.status = 400
    /\ resp.pid \in seeded
    /\ [name |-> Root \o <<Slash>> \o resp.pid \o <<Slash>> \o SeedName,
        data |-> Utf8Encode(SeedContent),
        content_type |-> "text/markdown"] \in blobs

\* ------------------------------------------------------------------ C19
\* C19: on both simulation endpoints, when the run of a created manager
\* ends in an exception, the manager is left as the transport-disconnect
\* path leaves it, whichever exception it was: the same stop actions on
\* the manager and on its background thread.
C19_SameTeardown ==
    [][\A s \in SimEndpoints :
          /\ sim_pc[s] = "running"
          /\ sim_pc'[s] = "done"
          /\ sim_log'[s][Len(sim_log'[s])].exc # "none"
          => manager'[s] = SimTeardown(s, manager[s], "WebSocketDisconnect")]_vars

\* ------------------------------------------------------------------ C20
\* C20: no call a delete-patient request on P makes to the bucket removes
\* or changes a blob whose key does not start with root/P/, and list-files
\* on P changes nothing and names no blob whose key does not start with
\* root/P/: the blobs of p10 survive the delete of p1 and stay out of its
\* listing.
C20_OnlyOwnFolder ==
    [][/\ \A t \in Workers :
             (calls[t].op = "delete_patient" /\ calls'[t] # calls[t]) =>
                 blobs \ UnderFolder(blobs, calls[t].pid) \subseteq blobs'
       /\ \A t \in Workers : \A pid \in Pids :
             Began(t, "delete_patient", pid) =>
                 /\ blobs' = blobs
                 /\ \A i \in DOMAIN calls'[t].todo :
                        StartsWith(calls'[t].todo[i],
                                   Root \o <<Slash>> \o pid \o <<Slash>>)
       /\ IsStep("list_files") =>
             /\ blobs' = blobs
             /\ \A e \in resp'.body :
                    StartsWith(e.full_path,
                               Root \o <<Slash>> \o resp'.pid \o <<Slash>>)]_vars

C20_Witness ==
    /\ resp.op = "delete_patient"
    /\ resp.pid = P1
    /\ resp.status = 200
    /\ UnderFolder(blobs, P10) # {}
====
